---- MODULE Spec2Model ----
(***************************************************************************)
(* Model of script.py: the price grammar (price_pattern / process_span),   *)
(* the value transform (apply_markup) and the two-pass rewrite of main().  *)
(*                                                                         *)
(* Text is a sequence of one-symbol strings.  Symbols outside ASCII are    *)
(* written with ASCII names: "EUR" is the euro sign, "ndash" the en dash,  *)
(* "tab" a whitespace character other than the space, and the Cyrillic     *)
(* label word is transliterated letter by letter ("S","t","o","i","m",     *)
(* "o","s","t","b"), upper and lower case being different symbols.         *)
(***************************************************************************)
EXTENDS Integers, Sequences, FiniteSets, TLC

(***************************************************************************)
(* Characters and character classes of the two regular expressions.        *)
(***************************************************************************)
Digits == {"0", "1", "2", "3", "4", "5", "6", "7", "8", "9"}

EUR == "EUR"

\* \d
IsDigit(c) == c \in Digits

\* \s
IsSpace(c) == c \in {" ", "tab"}

\* [\. ]
IsSep(c) == c \in {" ", "."}

\* [-ndash]
IsDash(c) == c \in {"-", "ndash"}

\* The label word of the prefix group, lower case.
Word == <<"s", "t", "o", "i", "m", "o", "s", "t", "b">>

\* re.IGNORECASE: case folding of the letters of the label word.
Lower(c) ==
    CASE c = "S" -> "s"
      [] c = "T" -> "t"
      [] c = "O" -> "o"
      [] c = "I" -> "i"
      [] c = "M" -> "m"
      [] c = "B" -> "b"
      [] OTHER -> c

\* The character at position i, or "" past either end of the text.
CharAt(text, i) == IF i \in 1..Len(text) THEN text[i] ELSE ""

Max(S) == CHOOSE x \in S : \A y \in S : y <= x

Min(S) == CHOOSE x \in S : \A y \in S : x <= y

\* \d+ at position i: the length of the maximal digit run starting there.
DigitRun(text, i) ==
    LET stops == {j \in i..(Len(text) + 1) : ~IsDigit(CharAt(text, j))}
    IN  Min(stops) - i

\* \s* at position i: the first position at or after i that is not whitespace.
SkipSpace(text, i) ==
    Min({j \in i..(Len(text) + 1) : ~IsSpace(CharAt(text, j))})

\* One group [\. ]\d{3} at position j.
GroupAt(text, j) ==
    /\ IsSep(CharAt(text, j))
    /\ IsDigit(CharAt(text, j + 1))
    /\ IsDigit(CharAt(text, j + 2))
    /\ IsDigit(CharAt(text, j + 3))

\* (?:[\. ]\d{3})* at position j: the greatest number of consecutive groups.
MaxGroups(text, j) ==
    LET fits == {g \in 0..(Len(text) \div 4) :
                    \A h \in 0..(g - 1) : GroupAt(text, j + 4 * h)}
    IN  Max(fits)

\* First alternative \d{1,3}(?:[\. ]\d{3})* at position i, followed by the
\* rest of the pattern, which matches at the positions of the set rest: the
\* backtracking order is the digit count from 3 down to 1 and, for each, the
\* group count from the greatest down to 0.  The end (exclusive) of the
\* first candidate the rest accepts, 0 when it accepts none.
Alt1End(text, i, rest) ==
    LET ks == {k \in 1..3 : k <= DigitRun(text, i)}
        Ends(k) == {i + k + 4 * g : g \in 0..MaxGroups(text, i + k)}
        Good(k) == Ends(k) \cap rest
        oks == {k \in ks : Good(k) # {}}
    IN  IF oks = {} THEN 0 ELSE Max(Good(Max(oks)))

\* The positions of a text, the one after its last character included.
Positions(text) == 1..(Len(text) + 1)

(***************************************************************************)
(* apply_markup                                                            *)
(***************************************************************************)
\* The position of the first digit of the text, 0 when it has none.
FirstDigit(text) ==
    LET ds == {i \in 1..Len(text) : IsDigit(text[i])}
    IN  IF ds = {} THEN 0 ELSE Min(ds)

\* (?!\d) at position j.
NoDigitAt(text, j) == ~IsDigit(CharAt(text, j))

\* The search without the (?!\d) of the first alternative: the pattern as it
\* was before the lookahead was added.
ValMatchNoLookahead(text) ==
    LET i == FirstDigit(text)
        a == Alt1End(text, i, Positions(text))
    IN  IF i = 0 THEN <<0, 0>>
        ELSE IF a # 0 THEN <<i, a>>
        ELSE <<i, i + DigitRun(text, i)>>

\* re.search(r"(\d{1,3}(?:[\. ]\d{3})*(?!\d)|\d+)", text): the leftmost
\* match starts at the first digit; there the first alternative is tried
\* before the second.  <<start, end>> (end exclusive), <<0, 0>> for no match.
ValMatch(text) ==
    LET i == FirstDigit(text)
        a == Alt1End(text, i, {j \in Positions(text) : NoDigitAt(text, j)})
    IN  IF i = 0 THEN <<0, 0>>
        ELSE IF a # 0 THEN <<i, a>>
        ELSE <<i, i + DigitRun(text, i)>>

\* val_match.group(1).replace(" ", "").replace(".", "")
RawVal(text) ==
    LET m == ValMatch(text)
        NotSep(c) == c \notin {" ", "."}
    IN  SelectSeq(SubSeq(text, m[1], m[2] - 1), NotSep)

DigitVal(c) ==
    CASE c = "0" -> 0 [] c = "1" -> 1 [] c = "2" -> 2 [] c = "3" -> 3
      [] c = "4" -> 4 [] c = "5" -> 5 [] c = "6" -> 6 [] c = "7" -> 7
      [] c = "8" -> 8 [] c = "9" -> 9

DigitChar(d) == <<"0", "1", "2", "3", "4", "5", "6", "7", "8", "9">>[d + 1]

RECURSIVE DigitsToInt(_)
\* float(raw_val) of a digit string; exact below 2^53, which the bound on
\* the number of digits of the inputs keeps it.
DigitsToInt(ds) ==
    IF ds = <<>> THEN 0
    ELSE 10 * DigitsToInt(SubSeq(ds, 1, Len(ds) - 1)) + DigitVal(ds[Len(ds)])

RECURSIVE IntToDigits(_)
\* The decimal digits of a natural number.
IntToDigits(n) ==
    IF n < 10 THEN <<DigitChar(n)>>
    ELSE IntToDigits(n \div 10) \o <<DigitChar(n % 10)>>

\* A multiplier is a number of thousandths: 1050 is 1.05.  The markup
\* control steps by tenths of a percent, and 1 + percent/100 of such a markup
\* is a whole number of thousandths.
MultDen == 1000

\* The default of the multiplier parameter, 1.05: what a call takes that
\* does not pass multiplier=1.0.
DefaultMultiplier == 1050

\* multiplier=1.0
Unity == MultDen

\* int(float(raw_val) * multiplier): the product truncated, not rounded.
RoundFloatTruncated(v, mult, tieUp) ==
    (v \div MultDen) * mult + ((v % MultDen) * mult) \div MultDen

\* int(round(float(raw_val) * multiplier)).  v * mult / 1000 is computed as
\* whole + frac/1000 without an intermediate product above 2^31.  round()
\* takes the nearest integer.  When the decimal product lies exactly halfway
\* the double product is the halfway value or a neighbouring double,
\* depending on the binary representation of the multiplier, and round()
\* (half to even on the double) yields the lower or the upper integer:
\* tieUp selects which.
RoundFloat(v, mult, tieUp) ==
    LET q == v \div MultDen
        r == v % MultDen
        whole == q * mult + (r * mult) \div MultDen
        frac == (r * mult) % MultDen
    IN  IF 2 * frac < MultDen THEN whole
        ELSE IF 2 * frac > MultDen THEN whole + 1
        ELSE IF tieUp THEN whole + 1 ELSE whole

RECURSIVE Group3(_)
\* f"{final_val:,}".replace(",", " "): groups of three digits from the right.
Group3(ds) ==
    IF Len(ds) <= 3 THEN ds
    ELSE Group3(SubSeq(ds, 1, Len(ds) - 3)) \o <<" ">>
            \o SubSeq(ds, Len(ds) - 2, Len(ds))

FormatVal(n) == Group3(IntToDigits(n))

\* apply_markup without the "if not val_match: return text" guard: a text
\* without number is wrapped in prefix and currency like a value.
ApplyMarkupNoFallback(text, original_prefix, original_currency, multiplier, tieUp) ==
    IF ValMatch(text) = <<0, 0>>
    THEN original_prefix \o text \o <<" ">> \o original_currency
    ELSE original_prefix
            \o FormatVal(RoundFloat(DigitsToInt(RawVal(text)), multiplier, tieUp))
            \o <<" ">> \o original_currency

\* apply_markup(text, original_prefix, original_currency, multiplier).
\* float() of a run of digits never raises ValueError, so the except branch
\* is not taken.
ApplyMarkup(text, original_prefix, original_currency, multiplier, tieUp) ==
    IF ValMatch(text) = <<0, 0>> THEN text
    ELSE LET final_val == RoundFloat(DigitsToInt(RawVal(text)), multiplier, tieUp)
         IN  original_prefix \o FormatVal(final_val) \o <<" ">> \o original_currency

(***************************************************************************)
(* price_pattern and process_span                                          *)
(***************************************************************************)
\* The label word, case-insensitively, at position i.
WordAt(text, i) ==
    \A j \in 1..Len(Word) : Lower(CharAt(text, i + j - 1)) = Word[j]

\* \s*(?P<currency>EUR) at position j.
EuroAfterSpace(text, j) == CharAt(text, SkipSpace(text, j)) = EUR

\* (?P<value>\d{1,3}(?:[\. ]\d{3})*|\d+) at position s, followed by
\* \s*EUR: the end (exclusive) of the value, 0 when there is no match.  A
\* shorter second alternative is followed by a digit, so only the maximal
\* run can be accepted.
ValueEnd(text, s) ==
    LET a == Alt1End(text, s, {j \in Positions(text) : EuroAfterSpace(text, j)})
        b == s + DigitRun(text, s)
    IN  IF a # 0 THEN a
        ELSE IF b > s /\ EuroAfterSpace(text, b) THEN b
        ELSE 0

\* (?P<prefix>word\s*[-ndash]?\s*)? at position i: the position where the
\* value starts when the prefix group takes part in the match.  Neither
\* whitespace nor a dash is a digit, so backtracking inside the group cannot
\* turn a failure into a match.
PrefixEnd(text, i) ==
    LET p1 == SkipSpace(text, i + Len(Word))
        p2 == IF IsDash(CharAt(text, p1)) THEN p1 + 1 ELSE p1
    IN  SkipSpace(text, p2)

NoMatch == [start |-> 0, vstart |-> 0, vend |-> 0, end |-> 0]

\* A match from start, with its value group from vstart to vend (exclusive):
\* \s* and the currency follow the value.
MatchOf(text, start, vstart, vend) ==
    IF vend = 0 THEN NoMatch
    ELSE [start |-> start, vstart |-> vstart, vend |-> vend,
          end |-> SkipSpace(text, vend) + 1]

\* price_pattern matched at position i: with the prefix group first (the
\* optional group is greedy), then without it.
MatchAt(text, i) ==
    IF WordAt(text, i) /\ ValueEnd(text, PrefixEnd(text, i)) # 0
    THEN MatchOf(text, i, PrefixEnd(text, i), ValueEnd(text, PrefixEnd(text, i)))
    ELSE MatchOf(text, i, i, ValueEnd(text, i))

\* The position of the leftmost match at or after pos, 0 when there is none.
FirstMatch(text, pos) ==
    IF \E i \in pos..Len(text) : MatchAt(text, i) # NoMatch
    THEN Min({i \in pos..Len(text) : MatchAt(text, i) # NoMatch})
    ELSE 0

RECURSIVE FindFrom(_, _)
\* The match at position i, then the matches of the rest of the text after
\* its end; nothing when i is 0.
FindFrom(text, i) ==
    IF i = 0 THEN <<>>
    ELSE <<MatchAt(text, i)>> \o FindFrom(text, FirstMatch(text, MatchAt(text, i).end))

\* price_pattern.finditer(text): the non-overlapping matches, left to right.
FindIter(text) == FindFrom(text, FirstMatch(text, 1))

\* The dict process_span appends for one match.
Occurrence(span, page_num, m) ==
    [page |-> page_num + 1,
     original_text |-> SubSeq(span.text, m.start, m.end - 1),
     prefix |-> SubSeq(span.text, m.start, m.vstart - 1),
     value |-> SubSeq(span.text, m.vstart, m.vend - 1),
     currency |-> <<EUR>>,
     bbox |-> span.bbox,
     origin |-> span.origin,
     font_size |-> span.size,
     color |-> span.color]

RECURSIVE Occurrences(_, _, _)
Occurrences(span, page_num, matches) ==
    IF matches = <<>> THEN <<>>
    ELSE <<Occurrence(span, page_num, Head(matches))>>
            \o Occurrences(span, page_num, Tail(matches))

\* process_span(span, page_num, price_pattern)
ProcessSpan(span, page_num) == Occurrences(span, page_num, FindIter(span.text))

(***************************************************************************)
(* Inputs of the model.                                                    *)
(***************************************************************************)
\* The greatest number of text spans of the uploaded document.
MaxSpans == 2

\* The greatest number of cells the user edits before generating.
MaxEdits == 1

\* The greatest length of the enumerated texts given to apply_markup.
MaxLen == 4

LabelPrice == <<"S", "t", "o", "i", "m", "o", "s", "t", "b", " ", "3", "5", " ", "0", "0", "0", " ", EUR>>

TwoPrices == <<"1", "0", " ", EUR, " ", "2", "0", EUR>>

NoPrice == <<"N", "/", "A">>

\* Span texts of the documents: a labelled grouped price, two prices in one
\* span, a text without price.
SpanTexts == {LabelPrice, TwoPrices, NoPrice}

\* Where a span lies, as get_text("dict") reports it: the 0-based number of
\* its page, bbox (x0, y0, x1, y1), origin (x, y) of the baseline, size and
\* color.  The two boxes of page 0 overlap; the second belongs to a span
\* whose baseline does not start at the left edge of its box (text that is
\* not written left to right along the x axis).
Places ==
    {[page |-> 0, bbox |-> <<10, 10, 60, 20>>, origin |-> <<10, 18>>,
      size |-> 10, color |-> 0],
     [page |-> 0, bbox |-> <<40, 10, 90, 24>>, origin |-> <<42, 21>>,
      size |-> 12, color |-> 255],
     [page |-> 1, bbox |-> <<10, 10, 60, 20>>, origin |-> <<10, 18>>,
      size |-> 10, color |-> 0]}

Spans ==
    {[page |-> g.page, text |-> t, bbox |-> g.bbox, origin |-> g.origin,
      size |-> g.size, color |-> g.color] : t \in SpanTexts, g \in Places}

\* The documents: the spans of all pages in page order, each with its page.
Documents ==
    {d \in UNION {[1..n -> Spans] : n \in 0..MaxSpans} :
        \A i \in 1..(Len(d) - 1) : d[i].page <= d[i + 1].page}

\* Markups the user sets, in tenths of a percent: 0 % and 5 % (the default).
Markups == {0, 50}

\* Multipliers given to apply_markup on its own, in thousandths: 0.5, 1.0,
\* 1.05 (the default) and 1.1.
Multipliers == {500, MultDen, 1050, 1100}

\* The symbols of the enumerated texts.
Alphabet == {"0", "1", "2", " ", ".", EUR, "N"}

\* Longer texts: the examples of the documentation, an ungrouped run of more
\* than three digits in several surroundings, separators in odd places, the
\* label in another case and with a dash, whitespace other than the space.
Examples ==
    {LabelPrice,
     <<"1", "2", EUR>>,
     <<"S", "t", "o", "i", "m", "o", "s", "t", "b", " ", "1", "6", "0", "0", EUR>>,
     <<"1", "6", "0", "0", " ", "0", "0", "0">>,
     <<"1", "6", "0", "0", "0", ".", "5", "0", "0", " ", EUR>>,
     <<"1", " ", "2", "3", "4", "5", " ", EUR>>,
     <<"1", "2", "3", "4", "5", " ", "6", "7", "8", " ", EUR>>,
     <<"S", "T", "O", "I", "M", "O", "S", "T", "B", " ", "ndash", " ", "1", ".", "2", "3", "4", "tab", EUR>>,
     <<"s", "t", "o", "i", "m", "o", "s", "t", "b", "9", "9", "9", " ", "9", "9", "9", EUR>>,
     <<"0", "0", "7", " ", EUR, " ", "a", "n", "d", " ", "1", "0", EUR>>,
     NoPrice}

\* The texts apply_markup and the grammar are tried on.
Texts == UNION {[1..n -> Alphabet] : n \in 0..MaxLen} \cup Examples

\* Prefixes passed with a text that is not taken from a grammar match.
Prefixes == {<<>>, <<"S", "t", "o", "i", "m", "o", "s", "t", "b", " ">>}

\* Texts the user types into a cell, besides the original text of the row.
EditTexts == {NoPrice, <<"3", "6", "7", "5", "0", EUR>>}

(***************************************************************************)
(* main(): the state of one session.                                       *)
(***************************************************************************)
VARIABLES
    pc,                \* the phase main() is in
    doc,               \* the uploaded document
    all_prices,        \* the occurrences found by the scan
    markup_multiplier, \* 1 + markup_percent / 100, in thousandths
    edited_rows,       \* the rows of the data editor
    edits,             \* the number of cells edited so far
    row,               \* the position of the running pass in edited_rows
    log,               \* the drawing operations issued on doc_new, in order
    font_file,         \* whether DejaVuSans.ttf can be loaded: "yes", "no"
    font_failed,       \* the rows for which insert_font raised
    output,            \* the serialized document, <<"none">> before the save
    mpc,               \* apply_markup on its own: the step reached
    text,              \* its text argument
    original_prefix,   \* its original_prefix argument
    original_currency, \* its original_currency argument
    multiplier,        \* its multiplier argument
    matched,           \* whether the arguments come from a grammar match
    value,             \* the value group of that match
    raw_val,           \* its local raw_val
    result,            \* its return value
    reapplied,         \* the return value of a second call on the result
    reparsed           \* the matches of price_pattern in the result

mainVars == <<pc, doc, all_prices, markup_multiplier, edited_rows, edits, row,
              log, font_file, font_failed, output>>

fnVars == <<mpc, text, original_prefix, original_currency, multiplier, matched,
            value, raw_val, result, reapplied, reparsed>>

vars == <<pc, doc, all_prices, markup_multiplier, edited_rows, edits, row,
          log, font_file, font_failed, output, mpc, text, original_prefix,
          original_currency, multiplier, matched, value, raw_val, result,
          reapplied, reparsed>>

None == <<"none">>

RECURSIVE ExtractAll(_, _)
\* The extraction phase: for i, page in enumerate(doc), the occurrences of
\* every span of the page, appended in order (extract_prices_from_page).
ExtractAll(d, k) ==
    IF k > Len(d) THEN <<>>
    ELSE ProcessSpan(d[k], d[k].page) \o ExtractAll(d, k + 1)

FnIdle ==
    /\ mpc = "idle"
    /\ text = <<>>
    /\ original_prefix = <<>>
    /\ original_currency = <<>>
    /\ multiplier = 0
    /\ matched = FALSE
    /\ value = None
    /\ raw_val = None
    /\ result = None
    /\ reapplied = None
    /\ reparsed = None

\* A PDF has been uploaded and opened.
Init ==
    /\ pc = "uploaded"
    /\ doc \in Documents
    /\ all_prices = <<>>
    /\ markup_multiplier = 0
    /\ edited_rows = <<>>
    /\ edits = 0
    /\ row = 0
    /\ log = <<>>
    /\ font_file = "unused"
    /\ font_failed = {}
    /\ output = None
    /\ FnIdle

\* The extraction phase without the early return on an empty list.
ScanNoReturn ==
    /\ pc = "uploaded"
    /\ all_prices' = ExtractAll(doc, 1)
    /\ pc' = "found"
    /\ UNCHANGED <<doc, markup_multiplier, edited_rows, edits, row, log,
                   font_file, font_failed, output>>
    /\ UNCHANGED fnVars

\* Extraction phase, then "if not all_prices: st.warning(...); return".
Scan ==
    /\ pc = "uploaded"
    /\ all_prices' = ExtractAll(doc, 1)
    /\ pc' = IF all_prices' = <<>> THEN "no_prices" ELSE "found"
    /\ UNCHANGED <<doc, markup_multiplier, edited_rows, edits, row, log,
                   font_file, font_failed, output>>
    /\ UNCHANGED fnVars

\* The markup control and the table: data_for_df holds for every occurrence
\* its default New Text, apply_markup(original_text, prefix, currency,
\* multiplier=markup_multiplier).
BuildTable(markup, ties) ==
    /\ pc = "found"
    /\ markup_multiplier' = MultDen + markup
    /\ edited_rows' =
          [k \in 1..Len(all_prices) |->
              [ID |-> k - 1,
               Page |-> all_prices[k].page,
               OriginalText |-> all_prices[k].original_text,
               NewText |-> ApplyMarkup(all_prices[k].original_text,
                                       all_prices[k].prefix,
                                       all_prices[k].currency,
                                       MultDen + markup, ties[k])]]
    /\ pc' = "table"
    /\ UNCHANGED <<doc, all_prices, edits, row, log, font_file, font_failed,
                   output>>
    /\ UNCHANGED fnVars

\* The user overwrites the New Text cell of row k (the only editable column).
EditRow(k, t) ==
    /\ pc = "table"
    /\ edits < MaxEdits
    /\ k \in 1..Len(edited_rows)
    /\ edited_rows' = [edited_rows EXCEPT ![k].NewText = t]
    /\ edits' = edits + 1
    /\ UNCHANGED <<pc, doc, all_prices, markup_multiplier, row, log,
                   font_file, font_failed, output>>
    /\ UNCHANGED fnVars

\* The button: doc_new is a fresh copy of the upload, pass 1 starts.  The
\* font file lies beside the script or it does not, for the whole run.
Generate(present) ==
    /\ pc = "table"
    /\ pc' = "pass1"
    /\ row' = 1
    /\ log' = <<>>
    /\ font_file' = IF present THEN "yes" ELSE "no"
    /\ UNCHANGED <<doc, all_prices, markup_multiplier, edited_rows, edits,
                   font_failed, output>>
    /\ UNCHANGED fnVars

\* Whether a row is processed: new_text_val != original_item["original_text"].
Changed(r) == r.NewText # all_prices[r.ID + 1].original_text

\* Pass 1 without the "only process if text changed" test.
Pass1RowAlways ==
    /\ pc = "pass1"
    /\ row <= Len(edited_rows)
    /\ log' = Append(log, [op |-> "draw_rect", id |-> edited_rows[row].ID,
                           page |-> all_prices[edited_rows[row].ID + 1].page,
                           rect |-> all_prices[edited_rows[row].ID + 1].bbox])
    /\ row' = row + 1
    /\ UNCHANGED <<pc, doc, all_prices, markup_multiplier, edited_rows, edits,
                   font_file, font_failed, output>>
    /\ UNCHANGED fnVars

\* One iteration of pass 1: the whiteout of a changed row.
Pass1Row ==
    /\ pc = "pass1"
    /\ row <= Len(edited_rows)
    /\ LET r == edited_rows[row]
           original_item == all_prices[r.ID + 1]
       IN  log' = IF Changed(r)
                  THEN Append(log, [op |-> "draw_rect", id |-> r.ID,
                                    page |-> original_item.page,
                                    rect |-> original_item.bbox])
                  ELSE log
    /\ row' = row + 1
    /\ UNCHANGED <<pc, doc, all_prices, markup_multiplier, edited_rows, edits,
                   font_file, font_failed, output>>
    /\ UNCHANGED fnVars

\* The first loop is exhausted: pass 2 starts over the same rows.
Pass1End ==
    /\ pc = "pass1"
    /\ row > Len(edited_rows)
    /\ pc' = "pass2"
    /\ row' = 1
    /\ UNCHANGED <<doc, all_prices, markup_multiplier, edited_rows, edits, log,
                   font_file, font_failed, output>>
    /\ UNCHANGED fnVars

\* The text entry pass 2 appends for a row, given the anchor and the font.
TextEntry(r, point, font_name) ==
    [op |-> "insert_text", id |-> r.ID,
     page |-> all_prices[r.ID + 1].page,
     point |-> point,
     text |-> ApplyMarkup(r.NewText, all_prices[r.ID + 1].prefix,
                          all_prices[r.ID + 1].currency, Unity, FALSE),
     fontsize |-> all_prices[r.ID + 1].font_size,
     fontname |-> font_name,
     color |-> 0]

\* Pass 2 as a single pass would do it: each changed row is whited out and
\* redrawn in the same iteration.
Pass2RowInterleaved ==
    /\ pc = "pass2"
    /\ row <= Len(edited_rows)
    /\ LET r == edited_rows[row]
           item == all_prices[r.ID + 1]
       IN  IF Changed(r)
           THEN /\ log' = log
                     \o <<[op |-> "draw_rect", id |-> r.ID, page |-> item.page,
                           rect |-> item.bbox]>>
                     \o <<TextEntry(r, <<item.bbox[1], item.origin[2]>>,
                                    IF font_file = "no" THEN "helv" ELSE "dejavu")>>
                /\ font_failed' = IF font_file = "no"
                                  THEN font_failed \cup {r.ID} ELSE font_failed
           ELSE UNCHANGED <<log, font_failed>>
    /\ row' = row + 1
    /\ UNCHANGED <<pc, doc, all_prices, markup_multiplier, edited_rows, edits,
                   font_file, output>>
    /\ UNCHANGED fnVars

\* Pass 2 without the try/except around insert_font: the exception ends the
\* run before the text of the row is inserted.
Pass2RowUncaught ==
    /\ pc = "pass2"
    /\ row <= Len(edited_rows)
    /\ LET r == edited_rows[row]
           item == all_prices[r.ID + 1]
       IN  IF Changed(r) /\ font_file = "no"
           THEN /\ pc' = "crashed"
                /\ font_failed' = font_failed \cup {r.ID}
                /\ UNCHANGED <<log, row>>
           ELSE /\ log' = IF Changed(r)
                          THEN Append(log, TextEntry(r, <<item.bbox[1], item.origin[2]>>,
                                                     "dejavu"))
                          ELSE log
                /\ row' = row + 1
                /\ UNCHANGED <<pc, font_failed>>
    /\ UNCHANGED <<doc, all_prices, markup_multiplier, edited_rows, edits,
                   font_file, output>>
    /\ UNCHANGED fnVars

\* Pass 2 with the top left corner of the box as the anchor.
Pass2RowTopLeft ==
    /\ pc = "pass2"
    /\ row <= Len(edited_rows)
    /\ LET r == edited_rows[row]
           item == all_prices[r.ID + 1]
       IN  IF Changed(r)
           THEN /\ log' = Append(log, TextEntry(r, <<item.bbox[1], item.bbox[2]>>,
                                    IF font_file = "no" THEN "helv" ELSE "dejavu"))
                /\ font_failed' = IF font_file = "no"
                                  THEN font_failed \cup {r.ID} ELSE font_failed
           ELSE UNCHANGED <<log, font_failed>>
    /\ row' = row + 1
    /\ UNCHANGED <<pc, doc, all_prices, markup_multiplier, edited_rows, edits,
                   font_file, output>>
    /\ UNCHANGED fnVars

\* One iteration of pass 2.  page.get_fonts() lists tuples, never the bare
\* name, so "font_name not in page.get_fonts()" holds and insert_font is
\* called for every changed row; it raises when the font file cannot be
\* loaded, and the handler then takes the built-in font.
Pass2Row ==
    /\ pc = "pass2"
    /\ row <= Len(edited_rows)
    /\ LET r == edited_rows[row]
           original_item == all_prices[r.ID + 1]
           rect == original_item.bbox
           display_text == ApplyMarkup(r.NewText, original_item.prefix,
                                       original_item.currency, Unity, FALSE)
           raised == font_file = "no"
           font_name == IF raised THEN "helv" ELSE "dejavu"
       IN  IF Changed(r)
           THEN /\ log' = Append(log, [op |-> "insert_text", id |-> r.ID,
                                       page |-> original_item.page,
                                       point |-> <<rect[1], original_item.origin[2]>>,
                                       text |-> display_text,
                                       fontsize |-> original_item.font_size,
                                       fontname |-> font_name,
                                       color |-> 0])
                /\ font_failed' = IF raised THEN font_failed \cup {r.ID}
                                  ELSE font_failed
           ELSE UNCHANGED <<log, font_failed>>
    /\ row' = row + 1
    /\ UNCHANGED <<pc, doc, all_prices, markup_multiplier, edited_rows, edits,
                   font_file, output>>
    /\ UNCHANGED fnVars

\* doc_new.save(output_buffer): the document with everything drawn on it.
Save ==
    /\ pc = "pass2"
    /\ row > Len(edited_rows)
    /\ output' = log
    /\ pc' = "done"
    /\ UNCHANGED <<doc, all_prices, markup_multiplier, edited_rows, edits, row,
                   log, font_file, font_failed>>
    /\ UNCHANGED fnVars

Next ==
    \/ Scan
    \/ \E markup \in Markups : \E ties \in [1..Len(all_prices) -> BOOLEAN] :
          BuildTable(markup, ties)
    \/ \E k \in 1..Len(edited_rows) :
          \E t \in EditTexts \cup {edited_rows[k].OriginalText} : EditRow(k, t)
    \/ \E present \in BOOLEAN : Generate(present)
    \/ Pass1Row
    \/ Pass1End
    \/ Pass2Row
    \/ Save

Spec == Init /\ [][Next]_vars

(***************************************************************************)
(* apply_markup on its own: called on a text, called again on its result,  *)
(* and its result scanned by the grammar.                                  *)
(***************************************************************************)
MainIdle ==
    /\ pc = "idle"
    /\ doc = <<>>
    /\ all_prices = <<>>
    /\ markup_multiplier = 0
    /\ edited_rows = <<>>
    /\ edits = 0
    /\ row = 0
    /\ log = <<>>
    /\ font_file = "unused"
    /\ font_failed = {}
    /\ output = None

FnInit ==
    /\ MainIdle
    /\ mpc = "input"
    /\ text \in Texts
    /\ original_prefix = <<>>
    /\ original_currency = <<>>
    /\ multiplier = 0
    /\ matched = FALSE
    /\ value = None
    /\ raw_val = None
    /\ result = None
    /\ reapplied = None
    /\ reparsed = None

\* A span holding a text; its geometry plays no part here.
SpanOf(t) ==
    [page |-> 0, text |-> t, bbox |-> <<0, 0, 0, 0>>, origin |-> <<0, 0>>,
     size |-> 0, color |-> 0]

\* The arguments main() passes for the table: the matched text of an
\* occurrence, with the prefix and currency of that occurrence.
TakeArgs(occ) ==
    /\ text' = occ.original_text
    /\ original_prefix' = occ.prefix
    /\ original_currency' = occ.currency
    /\ value' = occ.value

\* The k-th occurrence of the text is taken.
TakeMatch(k) ==
    /\ mpc = "input"
    /\ k \in 1..Len(FindIter(text))
    /\ TakeArgs(ProcessSpan(SpanOf(text), 0)[k])
    /\ matched' = TRUE
    /\ mpc' = "args"
    /\ UNCHANGED <<multiplier, raw_val, result, reapplied, reparsed>>
    /\ UNCHANGED mainVars

\* The arguments main() passes in pass 2: a text typed by the user, with the
\* prefix and currency of some occurrence.
TakeText(p) ==
    /\ mpc = "input"
    /\ original_prefix' = p
    /\ original_currency' = <<EUR>>
    /\ matched' = FALSE
    /\ mpc' = "args"
    /\ UNCHANGED <<text, multiplier, value, raw_val, result, reapplied, reparsed>>
    /\ UNCHANGED mainVars

\* The call apply_markup(text, original_prefix, original_currency, m).
Apply(m, tieUp) ==
    /\ mpc = "args"
    /\ multiplier' = m
    /\ raw_val' = IF ValMatch(text) = <<0, 0>> THEN None ELSE RawVal(text)
    /\ result' = ApplyMarkup(text, original_prefix, original_currency, m, tieUp)
    /\ mpc' = "applied"
    /\ UNCHANGED <<text, original_prefix, original_currency, matched, value,
                   reapplied, reparsed>>
    /\ UNCHANGED mainVars

\* The call of pass 2 on a text that is itself a result of apply_markup,
\* with multiplier=1.0.
Reapply ==
    /\ mpc = "applied"
    /\ reapplied' = ApplyMarkup(result, original_prefix, original_currency,
                                Unity, FALSE)
    /\ mpc' = "reapplied"
    /\ UNCHANGED <<text, original_prefix, original_currency, multiplier,
                   matched, value, raw_val, result, reparsed>>
    /\ UNCHANGED mainVars

\* The result scanned by the grammar, as a span text.
Reparse ==
    /\ mpc = "applied"
    /\ reparsed' = ProcessSpan(SpanOf(result), 0)
    /\ mpc' = "reparsed"
    /\ UNCHANGED <<text, original_prefix, original_currency, multiplier,
                   matched, value, raw_val, result, reapplied>>
    /\ UNCHANGED mainVars

FnNext ==
    \/ \E k \in 1..Len(text) : TakeMatch(k)
    \/ \E p \in Prefixes : TakeText(p)
    \/ \E m \in Multipliers : \E tieUp \in BOOLEAN : Apply(m, tieUp)
    \/ Reapply
    \/ Reparse

SpecMarkup == FnInit /\ [][FnNext]_vars

(***************************************************************************)
(* Properties of main().                                                   *)
(***************************************************************************)
\* Two rectangles (x0, y0, x1, y1) share a region of the page.
Overlap(a, b) == a[1] < b[3] /\ b[1] < a[3] /\ a[2] < b[4] /\ b[2] < a[4]

\* A point lies in a rectangle, edges included.
Within(pt, b) == b[1] <= pt[1] /\ pt[1] <= b[3] /\ b[2] <= pt[2] /\ pt[2] <= b[4]

IsRect(e) == e.op = "draw_rect"

IsText(e) == e.op = "insert_text"

ItemOf(r) == all_prices[r.ID + 1]

\* The rows generation acts on, in table order.
ChangedRows == SelectSeq(edited_rows, Changed)

\* C1: every whiteout is issued before any text insertion; and in the saved
\* document every changed row has its replacement text, with no whiteout of
\* an overlapping box of its page issued after it.
TwoPassOrder ==
    /\ \A i \in 1..Len(log) : \A j \in 1..Len(log) :
          IsText(log[i]) /\ IsRect(log[j]) => j < i
    /\ pc = "done" =>
          \A k \in 1..Len(edited_rows) :
             Changed(edited_rows[k]) =>
                \E i \in 1..Len(output) :
                   /\ IsText(output[i])
                   /\ output[i].id = edited_rows[k].ID
                   /\ \A j \in (i + 1)..Len(output) :
                         ~(/\ IsRect(output[j])
                           /\ output[j].page = output[i].page
                           /\ Overlap(output[j].rect, ItemOf(edited_rows[k]).bbox))

\* C1 witness: a saved document with two changed rows of the same page whose
\* boxes differ and overlap.
TwoPassOrderWitness ==
    /\ pc = "done"
    /\ \E k \in 1..Len(edited_rows) : \E l \in 1..Len(edited_rows) :
          /\ k < l
          /\ Changed(edited_rows[k])
          /\ Changed(edited_rows[l])
          /\ ItemOf(edited_rows[k]).page = ItemOf(edited_rows[l]).page
          /\ ItemOf(edited_rows[k]).bbox # ItemOf(edited_rows[l]).bbox
          /\ Overlap(ItemOf(edited_rows[k]).bbox, ItemOf(edited_rows[l]).bbox)

\* C2: in the saved document the box of a row whose New Text equals its
\* original text is covered by no whiteout of its page and holds the anchor
\* of no inserted text.
NoOpRegionUntouched ==
    pc = "done" =>
       \A k \in 1..Len(edited_rows) :
          ~Changed(edited_rows[k]) =>
             \A i \in 1..Len(output) :
                output[i].page = ItemOf(edited_rows[k]).page =>
                   /\ IsRect(output[i]) =>
                         ~Overlap(output[i].rect, ItemOf(edited_rows[k]).bbox)
                   /\ IsText(output[i]) =>
                         ~Within(output[i].point, ItemOf(edited_rows[k]).bbox)

\* C7: once the scan has found no occurrence the run is in the
\* "no prices found" state, where nothing more can happen: no table, no
\* drawing operation, no output document.
NoPricesFound ==
    (pc # "uploaded" /\ all_prices = <<>>) =>
       /\ pc = "no_prices"
       /\ edited_rows = <<>>
       /\ log = <<>>
       /\ output = None
       /\ ~ENABLED Next

\* C7 witness: a document that has spans, none with a price, after its scan.
NoPricesFoundWitness ==
    /\ pc = "no_prices"
    /\ Len(doc) > 0

\* C8: a row for which insert_font raised has its text inserted, with the
\* built-in font; the run is then still in pass 2, at a later row or at the
\* save, or done; the saved document is what was drawn and holds the text of
\* every changed row.
FontFallback ==
    /\ \A id \in font_failed :
          \E i \in 1..Len(log) :
             IsText(log[i]) /\ log[i].id = id /\ log[i].fontname = "helv"
    /\ font_failed # {} =>
          \/ pc = "pass2" /\ row \in 2..(Len(edited_rows) + 1)
          \/ pc = "done"
    /\ pc = "done" =>
          /\ output = log
          /\ \A k \in 1..Len(edited_rows) :
                Changed(edited_rows[k]) =>
                   \E i \in 1..Len(output) :
                      IsText(output[i]) /\ output[i].id = edited_rows[k].ID

\* C8 witness: a saved document for two rows of which insert_font raised.
FontFallbackWitness ==
    /\ pc = "done"
    /\ Cardinality(font_failed) >= 2
    /\ Len(SelectSeq(output, IsText)) >= 2

\* C9 as stated: every replacement text is drawn at the origin of its
\* occurrence (both coordinates), with its font size, in black.
InsertAtOrigin ==
    \A i \in 1..Len(log) :
       IsText(log[i]) =>
          /\ log[i].point = all_prices[log[i].id + 1].origin
          /\ log[i].fontsize = all_prices[log[i].id + 1].font_size
          /\ log[i].color = 0

\* C9 amended: every replacement text is drawn at the left edge of the box
\* of its occurrence (bbox x0) and the baseline of its origin (origin y),
\* with its font size, in black.
InsertAtBoxLeftOnBaseline ==
    \A i \in 1..Len(log) :
       IsText(log[i]) =>
          /\ log[i].point[1] = all_prices[log[i].id + 1].bbox[1]
          /\ log[i].point[2] = all_prices[log[i].id + 1].origin[2]
          /\ log[i].fontsize = all_prices[log[i].id + 1].font_size
          /\ log[i].color = 0

\* C9 witness: a text inserted for an occurrence whose baseline does not
\* start at the left edge of its box and whose color is not black.
InsertAtBoxLeftWitness ==
    \E i \in 1..Len(log) :
       /\ IsText(log[i])
       /\ all_prices[log[i].id + 1].origin[1] # all_prices[log[i].id + 1].bbox[1]
       /\ all_prices[log[i].id + 1].color # 0

\* The occurrence numbers of a sequence of log entries.
IdsOf(entries) == [i \in 1..Len(entries) |-> entries[i].id]

\* The occurrence numbers of the changed rows, in table order.
ChangedIds == [i \in 1..Len(ChangedRows) |-> ChangedRows[i].ID]

\* C10: the whiteouts of the saved document are those of the changed rows,
\* one each, in table order, each of the box and page of its occurrence; so
\* are the text insertions.
OnePerChangedRow ==
    pc = "done" =>
       /\ IdsOf(SelectSeq(output, IsRect)) = ChangedIds
       /\ IdsOf(SelectSeq(output, IsText)) = ChangedIds
       /\ \A i \in 1..Len(output) :
             /\ output[i].page = all_prices[output[i].id + 1].page
             /\ IsRect(output[i]) => output[i].rect = all_prices[output[i].id + 1].bbox

\* C10 witness: a saved document of a table with two changed rows and an
\* unchanged row between or around them.
OnePerChangedRowWitness ==
    /\ pc = "done"
    /\ Len(ChangedRows) >= 2
    /\ Len(ChangedRows) < Len(edited_rows)

(***************************************************************************)
(* Properties of apply_markup.                                             *)
(***************************************************************************)
Applied == mpc \in {"applied", "reapplied", "reparsed"}

\* The digits of a text, as a number.
NumberIn(t) == DigitsToInt(SelectSeq(t, IsDigit))

\* What a result holds between the prefix and the final space and currency.
Middle(t) == SubSeq(t, Len(original_prefix) + 1, Len(t) - Len(original_currency) - 1)

\* n is an integer nearest to v * m / 1000.
Nearest(n, v, m) ==
    /\ 2 * (n * MultDen - v * m) <= MultDen
    /\ 2 * (v * m - n * MultDen) <= MultDen

\* Digits in groups of three from the right, the groups separated by one
\* space, no leading zero.
IsGrouped(t) ==
    /\ Len(t) >= 1
    /\ \A i \in 1..Len(t) :
          IF (Len(t) - i) % 4 = 3 THEN t[i] = " " ELSE IsDigit(t[i])
    /\ t[1] = "0" => Len(t) = 1

\* C3: when the first digit of the text starts a run of more than three
\* digits, the value taken is that whole run, and the number of the result
\* is the whole run scaled.
ScalesWholeRun ==
    (Applied /\ FirstDigit(text) # 0 /\ DigitRun(text, FirstDigit(text)) > 3) =>
       /\ raw_val = SubSeq(text, FirstDigit(text),
                           FirstDigit(text) + DigitRun(text, FirstDigit(text)) - 1)
       /\ Nearest(NumberIn(Middle(result)), NumberIn(raw_val), multiplier)

\* C3 witness: the labelled text with 1600 and no space before the currency,
\* scaled by 1.05 to 1 680.
ScalesWholeRunWitness ==
    /\ mpc = "applied"
    /\ text = <<"S", "t", "o", "i", "m", "o", "s", "t", "b", " ", "1", "6", "0", "0", EUR>>
    /\ multiplier = 1050
    /\ result = <<"S", "t", "o", "i", "m", "o", "s", "t", "b", " ", "1", " ", "6", "8", "0", " ", EUR>>

\* C4: on a result of apply_markup for a grammar match, a second call with
\* the same prefix and currency and multiplier 1.0 returns its argument.
UnityIdempotent ==
    (mpc = "reapplied" /\ matched) => reapplied = result

\* C4 witness: a match that a first call with multiplier 1.0 rewrites, and
\* that a second call leaves as the first returned it.
UnityIdempotentWitness ==
    /\ mpc = "reapplied"
    /\ matched
    /\ multiplier = MultDen
    /\ result # text
    /\ reapplied = result

\* C5: for a grammar match with value v the result is the prefix, a grouped
\* number n nearest to v * m, one space and the currency; the grammar finds
\* in the result one match, the whole of it, whose value is n.
FormatRoundTrip ==
    (Applied /\ matched) =>
       /\ result = original_prefix \o Middle(result) \o <<" ">> \o original_currency
       /\ IsGrouped(Middle(result))
       /\ Nearest(NumberIn(Middle(result)), NumberIn(value), multiplier)
       /\ mpc = "reparsed" =>
             /\ Len(reparsed) = 1
             /\ reparsed[1].original_text = result
             /\ reparsed[1].prefix = original_prefix
             /\ NumberIn(reparsed[1].value) = NumberIn(Middle(result))

\* C5 witness: the labelled price 35 000 at 5 % gives 36 750, read back.
FormatRoundTripWitness ==
    /\ mpc = "reparsed"
    /\ matched
    /\ text = LabelPrice
    /\ multiplier = 1050
    /\ result = <<"S", "t", "o", "i", "m", "o", "s", "t", "b", " ", "3", "6", " ", "7", "5", "0", " ", EUR>>
    /\ NumberIn(reparsed[1].value) = 36750

\* C6: a text without digit is returned as it is, whatever the prefix, the
\* currency and the multiplier.
IdentityFallback ==
    (Applied /\ FirstDigit(text) = 0) => (result = text /\ raw_val = None)

\* C6 witness: "N/A" with a label prefix and a multiplier other than 1.0.
IdentityFallbackWitness ==
    /\ mpc = "applied"
    /\ text = NoPrice
    /\ original_prefix # <<>>
    /\ multiplier = 1050
    /\ result = NoPrice

====
